---- MODULE Spec2Model ----
(***************************************************************************)
(* GGroupsEntityProvider: the catalog entity provider that syncs Google    *)
(* Workspace groups and their members into the catalog as Group and User   *)
(* entities with one "full" mutation per run.                              *)
(*                                                                         *)
(* Strings the code takes apart (group names, e-mail addresses) are        *)
(* sequences of one-character strings.  An optional value is a record      *)
(* [defined, value]; undefined is [defined |-> FALSE, value |-> <<>>].     *)
(* One action is one synchronous stretch of code between two awaits.       *)
(***************************************************************************)
EXTENDS Integers, Sequences, FiniteSets, TLC

\* ------------------------------------------------------------------ bounds
MaxQueries == 2      \* longest google.providers.ggroups.query list
MaxAllow == 2        \* longest google.providers.ggroups.groups list
MaxGroups == 2       \* most groups fetched by the group-listing calls of a run
MaxMembers == 2      \* most members returned by the member-listing calls of a run

\* ------------------------------------------------------- optional values
Undefined == [defined |-> FALSE, value |-> <<>>]
Defined(v) == [defined |-> TRUE, value |-> v]

\* x || []
OrEmpty(x) == IF x.defined THEN x.value ELSE <<>>

RECURSIVE SeqsUpTo(_, _)
SeqsUpTo(S, n) ==
  IF n = 0 THEN {<<>>}
  ELSE LET shorter == SeqsUpTo(S, n - 1)
       IN shorter \cup {Append(s, x) : s \in {t \in shorter : Len(t) = n - 1}, x \in S}

\* ------------------------------------------------------------- the remote
\* The directory's groups (Schema$Group: id, name, description, email).
RemoteGroups ==
  { [id |-> "g1", name |-> <<"D", "e", "v", " ", "O", "p", "s">>,
     description |-> "developers", email |-> <<"d", "@", "o">>],
    [id |-> "g2", name |-> <<"q", "a", "T", "e", "a", "m">>,
     description |-> "testers", email |-> <<"t", "@", "o">>] }

\* The directory's members (Schema$Member: id, email).
RemoteMembers ==
  { [id |-> "u1", email |-> <<"j", "d", "@", "x">>],
    [id |-> "u2", email |-> <<"a", "s", "@", "x">>] }

\* Query expressions of the search-groups endpoint.
Queries == {"email:org-temp*", "name:temp*"}

CustomerId == "C12nfslfo"

\* What the configuration may hold.
GroupsConfigs ==
  {Undefined} \cup {Defined(s) : s \in SeqsUpTo({g.email : g \in RemoteGroups}, MaxAllow)}
QueryConfigs == {Undefined} \cup {Defined(s) : s \in SeqsUpTo(Queries, MaxQueries)}
CustomerIdConfigs == {Undefined, Defined(CustomerId)}

\* The resolved request URL of a group-listing call: the endpoint with the
\* call's parameters (customer, and the query when one is given).
ResponseURL(customer, query) ==
  IF query.defined THEN <<"groups?customer=", customer, "&query=", query.value>>
  ELSE <<"groups?customer=", customer>>

\* ---------------------------------------------------------------- strings
UpperCase == {"D", "O", "T"}
Separators == {" ", "-", "_"}
ToLower(c) == CASE c = "D" -> "d" [] c = "O" -> "o" [] c = "T" -> "t" [] OTHER -> c

RECURSIVE Words(_, _, _)
\* lodash words(): split at separators and at a lower-to-upper case change.
Words(s, cur, out) ==
  IF s = <<>> THEN (IF cur = <<>> THEN out ELSE Append(out, cur))
  ELSE LET c == Head(s) IN
       IF c \in Separators
       THEN Words(Tail(s), <<>>, IF cur = <<>> THEN out ELSE Append(out, cur))
       ELSE IF c \in UpperCase /\ cur # <<>> /\ cur[Len(cur)] \notin UpperCase
       THEN Words(Tail(s), <<c>>, Append(out, cur))
       ELSE Words(Tail(s), Append(cur, c), out)

RECURSIVE JoinWords(_)
JoinWords(ws) ==
  IF ws = <<>> THEN <<>>
  ELSE IF Len(ws) = 1 THEN [i \in 1..Len(ws[1]) |-> ToLower(ws[1][i])]
  ELSE [i \in 1..Len(ws[1]) |-> ToLower(ws[1][i])] \o <<"-">> \o JoinWords(Tail(ws))

\* lodash kebabCase(name)
kebabCase(s) == JoinWords(Words(s, <<>>, <<>>))

RECURSIVE SplitAtHead(_)
\* email.split('@')[0]
SplitAtHead(s) ==
  IF s = <<>> \/ Head(s) = "@" THEN <<>> ELSE <<Head(s)>> \o SplitAtHead(Tail(s))

\* array.includes(x)
Includes(arr, x) == \E i \in 1..Len(arr) : arr[i] = x

\* ---------------------------------------------------------------- entities
ANNOTATION_LOCATION == "backstage.io/managed-by-location"
ANNOTATION_ORIGIN_LOCATION == "backstage.io/managed-by-origin-location"

\* `ggroups:${groupsResponse.request.responseURL}`
LocationOf(response) == <<"ggroups:">> \o response.responseURL

GroupEntityOf(ggroup, response) ==
  [ apiVersion |-> "backstage.io/v1alpha1",
    kind |-> "Group",
    uid |-> ggroup.id,
    name |-> kebabCase(ggroup.name),
    description |-> ggroup.description,
    tags |-> <<"google-groups">>,
    annotations |-> [location |-> LocationOf(response),
                     originLocation |-> LocationOf(response)],
    type |-> "team",
    displayName |-> ggroup.name,
    email |-> ggroup.email,
    members |-> <<>>,
    children |-> <<>> ]

UserEntityOf(ggroupMember, group, response) ==
  [ apiVersion |-> "backstage.io/v1alpha1",
    kind |-> "User",
    uid |-> ggroupMember.id,
    name |-> SplitAtHead(ggroupMember.email),
    tags |-> <<"google-groups">>,
    annotations |-> [location |-> LocationOf(response),
                     originLocation |-> LocationOf(response)],
    email |-> ggroupMember.email,
    memberOf |-> <<group.name>> ]


\* entities.map(entity => ({entity, locationKey: ...[ANNOTATION_LOCATION]}))
DeferredEntity(entity) ==
  [entity |-> entity, locationKey |-> entity.annotations.location]

\* Mutation with an off-by-one bound in the map: the last entity is lost.
MutationDroppingLast(es) ==
  [type |-> "full", entities |-> [i \in 1..(Len(es) - 1) |-> DeferredEntity(es[i])]]

\* The argument of connection.applyMutation.
Mutation(es) ==
  [type |-> "full", entities |-> [i \in 1..Len(es) |-> DeferredEntity(es[i])]]

RECURSIVE AddMembers(_, _, _, _)
\* The loop over ggroupMembersResponse.data.members: one user entity per
\* member, its name pushed on the group's members, the entity pushed on the
\* output.  The result is the group entity and the output after the loop.
AddMembers(members, group, es, response) ==
  IF members = <<>> THEN [group |-> group, entities |-> es]
  ELSE LET userEntity == UserEntityOf(Head(members), group, response)
       IN AddMembers(Tail(members),
                     [group EXCEPT !.members = Append(@, userEntity.name)],
                     Append(es, userEntity),
                     response)

\* ------------------------------------------------------ run()'s conditions
\* BothConfigured with the lists tested by their length: an empty list
\* counts as not set.
BothConfiguredNonEmpty(groupsConfig, queryConfig) ==
  /\ groupsConfig.defined /\ Len(groupsConfig.value) > 0
  /\ queryConfig.defined /\ Len(queryConfig.value) > 0

\* if (groupsConfig && queryConfig): an array, empty or not, is truthy.
BothConfigured(groupsConfig, queryConfig) ==
  groupsConfig.defined /\ queryConfig.defined

\* NoQueryExpressions with the length test left out of the code.
NoQueryExpressionsUnchecked(queryConfig) == FALSE

\* if (queryConfig && queryConfig.length === 0)
NoQueryExpressions(queryConfig) ==
  queryConfig.defined /\ Len(queryConfig.value) = 0

RECURSIVE AppendNew(_, _)
AppendNew(gs, more) ==
  IF more = <<>> THEN gs
  ELSE AppendNew(IF \E i \in 1..Len(gs) : gs[i] = Head(more) THEN gs
                 ELSE Append(gs, Head(more)),
                 Tail(more))

\* ConcatGroups that leaves out a group already fetched by an earlier query.
ConcatGroupsDeduplicated(gs, groups) == Defined(AppendNew(OrEmpty(gs), OrEmpty(groups)))

\* [...ggroups, ...Array.isArray(data.groups) ? data.groups : []]
ConcatGroups(gs, groups) == Defined(OrEmpty(gs) \o OrEmpty(groups))

\* FilterGroups that keeps every group.
FilterGroupsKeepingAll(gs, groupsConfig) == gs

\* ggroups?.filter(ggroup => groupsConfig?.includes(ggroup.email))
FilterGroups(gs, groupsConfig) ==
  IF gs.defined
  THEN LET Allowed(g) == Includes(groupsConfig.value, g.email)
       IN Defined(SelectSeq(gs.value, Allowed))
  ELSE Undefined

\* NothingToSync with the early return left out of the code.
NothingToSyncUnchecked(es) == FALSE

\* if (entities.length === 0) return;
NothingToSync(es) == Len(es) = 0

\* ------------------------------------------------------------------ state
VARIABLES
  config,              \* the configuration the provider was constructed with
  connection,          \* this.connection is set
  directoryApiClient,  \* this.directoryApiClient is set
  initPc,              \* initializeGoogleApiClient: "pending", "resolved", "rejected"
  pc,                  \* where run() is
  error,               \* what the last run threw ("" when nothing)
  qi,                  \* index of the query expression whose call is in flight
  groupsResponse,      \* run()'s groupsResponse
  ggroups,             \* run()'s ggroups
  gi,                  \* index of the group the loop is at
  groupEntity,         \* the group entity being filled
  entities,            \* run()'s entities
  listCalls,           \* the query parameter of each groups.list call of the run
  listResults,         \* the data.groups of each groups.list response of the run
  memberCalls,         \* the groupKey of each members.list call of the run
  sinkCalls,           \* the argument of each applyMutation call of the run
  origin,              \* for each of ggroups, the URL of the call that returned it
  entityOrigin         \* for each of entities, the origin of its group

vars == <<config, connection, directoryApiClient, initPc, pc, error, qi,
          groupsResponse, ggroups, gi, groupEntity, entities, listCalls,
          listResults, memberCalls, sinkCalls, origin, entityOrigin>>

providerVars == <<config, connection, directoryApiClient, initPc>>

runVars == <<pc, error, qi, groupsResponse, ggroups, gi, groupEntity, entities,
             listCalls, listResults, memberCalls, sinkCalls, origin, entityOrigin>>

NoResponse == [defined |-> FALSE, responseURL |-> <<>>, groups |-> Undefined]
NoEntity == [kind |-> "none"]

ConnectionError == "Provider connection not initialized."
ClientError == "Google Admin SDK Directory API client not initialized."
CustomerIdError == "Missing required config value at 'google.providers.ggroups.customerId'"
BothError == "Neither google.providers.ggroups.groups or google.providers.ggroups.query are defined as config values."
NoQueryError == "google.providers.ggroups.query array has no query expressions defined."
RemoteError == "directory API request failed"
SinkError == "applyMutation failed"

\* run() is not executing: never invoked, returned, or thrown.
Resting == {"idle", "done", "failed"}

\* The locals of a run() that has just been invoked.
FreshRun ==
  [ pc |-> "idle", error |-> "", qi |-> 0, groupsResponse |-> NoResponse,
    ggroups |-> Defined(<<>>), gi |-> 0, groupEntity |-> NoEntity,
    entities |-> <<>>, listCalls |-> <<>>, listResults |-> <<>>,
    memberCalls |-> <<>>, sinkCalls |-> <<>>, origin |-> <<>>,
    entityOrigin |-> <<>> ]

CurrentRun ==
  [ pc |-> pc, error |-> error, qi |-> qi, groupsResponse |-> groupsResponse,
    ggroups |-> ggroups, gi |-> gi, groupEntity |-> groupEntity,
    entities |-> entities, listCalls |-> listCalls, listResults |-> listResults,
    memberCalls |-> memberCalls, sinkCalls |-> sinkCalls, origin |-> origin,
    entityOrigin |-> entityOrigin ]

SetRun(r) ==
  /\ pc' = r.pc
  /\ error' = r.error
  /\ qi' = r.qi
  /\ groupsResponse' = r.groupsResponse
  /\ ggroups' = r.ggroups
  /\ gi' = r.gi
  /\ groupEntity' = r.groupEntity
  /\ entities' = r.entities
  /\ listCalls' = r.listCalls
  /\ listResults' = r.listResults
  /\ memberCalls' = r.memberCalls
  /\ sinkCalls' = r.sinkCalls
  /\ origin' = r.origin
  /\ entityOrigin' = r.entityOrigin

Init ==
  /\ config \in [customerId : CustomerIdConfigs, groups : GroupsConfigs, query : QueryConfigs]
  /\ connection = FALSE
  /\ directoryApiClient = FALSE
  /\ initPc = "pending"
  /\ pc = "idle"
  /\ error = ""
  /\ qi = 0
  /\ groupsResponse = NoResponse
  /\ ggroups = Defined(<<>>)
  /\ gi = 0
  /\ groupEntity = NoEntity
  /\ entities = <<>>
  /\ listCalls = <<>>
  /\ listResults = <<>>
  /\ memberCalls = <<>>
  /\ sinkCalls = <<>>
  /\ origin = <<>>
  /\ entityOrigin = <<>>


\* --------------------------------------------------- run(), between awaits
Throw(r, e) == [r EXCEPT !.pc = "failed", !.error = e]

\* if (entities.length === 0) return; await this.connection.applyMutation(..)
Submit(r) ==
  IF NothingToSync(r.entities) THEN [r EXCEPT !.pc = "done"]
  ELSE [r EXCEPT !.sinkCalls = Append(@, Mutation(r.entities)),
                 !.pc = "applyMutation"]

\* The head of the loop over ggroups at index r.gi: past the end, go on to
\* the submission; otherwise build the group entity and call members.list.
NextGroup(r) ==
  IF r.gi > Len(OrEmpty(r.ggroups)) THEN Submit(r)
  ELSE LET ggroup == OrEmpty(r.ggroups)[r.gi]
       IN [r EXCEPT !.groupEntity = GroupEntityOf(ggroup, r.groupsResponse),
                    !.memberCalls = Append(@, ggroup.id),
                    !.pc = "membersList"]

\* The origins of the groups that the allow-list keeps.
FilterOrigin(gs, org, groupsConfig) ==
  LET pairs == [i \in 1..Len(OrEmpty(gs)) |-> <<OrEmpty(gs)[i], org[i]>>]
      Allowed(p) == Includes(groupsConfig.value, p[1].email)
      kept == SelectSeq(pairs, Allowed)
  IN [i \in 1..Len(kept) |-> kept[i][2]]

\* if (groupsConfig) ggroups = ggroups?.filter(..); const entities = [];
\* and into the loop.
FilterAndLoop(r) ==
  LET f == IF config.groups.defined
           THEN [r EXCEPT !.ggroups = FilterGroups(r.ggroups, config.groups),
                          !.origin = FilterOrigin(r.ggroups, r.origin, config.groups)]
           ELSE r
  IN NextGroup([f EXCEPT !.entities = <<>>, !.entityOrigin = <<>>, !.gi = 1])

\* this.directoryApiClient.groups.list({customer, query}) for the i-th
\* query expression (i = 0: the call without a query).
ListGroups(r, i) ==
  [r EXCEPT !.qi = i,
            !.listCalls = Append(@, IF i = 0 THEN Undefined
                                    ELSE Defined(config.query.value[i])),
            !.pc = "groupsList"]

\* RunBody without the two null checks on the connection and the client.
RunBodyWithoutReadinessChecks(r) ==
  IF ~config.customerId.defined THEN Throw(r, CustomerIdError)
  ELSE IF BothConfigured(config.groups, config.query) THEN Throw(r, BothError)
  ELSE IF NoQueryExpressions(config.query) THEN Throw(r, NoQueryError)
  ELSE IF ~config.query.defined THEN ListGroups(r, 0)
  ELSE IF Len(config.query.value) = 0 THEN FilterAndLoop(r)
  ELSE ListGroups(r, 1)

\* The code of run() up to its first await.
RunBody(r) ==
  IF ~connection THEN Throw(r, ConnectionError)
  ELSE IF ~directoryApiClient THEN Throw(r, ClientError)
  ELSE IF ~config.customerId.defined THEN Throw(r, CustomerIdError)
  ELSE IF BothConfigured(config.groups, config.query) THEN Throw(r, BothError)
  ELSE IF NoQueryExpressions(config.query) THEN Throw(r, NoQueryError)
  ELSE IF ~config.query.defined THEN ListGroups(r, 0)
  ELSE IF Len(config.query.value) = 0 THEN FilterAndLoop(r)
  ELSE ListGroups(r, 1)

\* ---------------------------------------------------------------- actions
\* AuthConfig.getClient resolves: the client is created.
InitializeGoogleApiClientResolve ==
  /\ initPc = "pending"
  /\ initPc' = "resolved"
  /\ directoryApiClient' = TRUE
  /\ UNCHANGED <<config, connection, runVars>>

\* AuthConfig.getClient rejects (no key file): the client is never created.
InitializeGoogleApiClientReject ==
  /\ initPc = "pending"
  /\ initPc' = "rejected"
  /\ UNCHANGED <<config, connection, directoryApiClient, runVars>>

connect ==
  /\ connection' = TRUE
  /\ UNCHANGED <<config, directoryApiClient, initPc, runVars>>

\* The scheduler invokes run(); runs of the task do not overlap.
run ==
  /\ pc \in Resting
  /\ SetRun(RunBody(FreshRun))
  /\ UNCHANGED providerVars

\* A groups.list call resolves with some page of groups, or with no groups
\* field at all.
GroupsListResolve ==
  /\ pc = "groupsList"
  /\ \E groups \in {Undefined} \cup
         {Defined(s) : s \in SeqsUpTo(RemoteGroups, MaxGroups - Len(OrEmpty(ggroups)))} :
       LET query == listCalls[Len(listCalls)]
           response == [defined |-> TRUE,
                        responseURL |-> ResponseURL(config.customerId.value, query),
                        groups |-> groups]
           got == [CurrentRun EXCEPT
                     !.groupsResponse = response,
                     !.listResults = Append(@, groups),
                     !.origin = @ \o [i \in 1..Len(OrEmpty(groups)) |-> response.responseURL]]
       IN IF qi = 0
          THEN SetRun(FilterAndLoop([got EXCEPT !.ggroups = groups]))
          ELSE LET more == [got EXCEPT !.ggroups = ConcatGroups(ggroups, groups)]
               IN IF qi < Len(config.query.value)
                  THEN SetRun(ListGroups(more, qi + 1))
                  ELSE SetRun(FilterAndLoop(more))
  /\ UNCHANGED providerVars

GroupsListReject ==
  /\ pc = "groupsList"
  /\ SetRun(Throw(CurrentRun, RemoteError))
  /\ UNCHANGED providerVars

\* The members fetched so far in this run.
UsersSoFar == Cardinality({i \in 1..Len(entities) : entities[i].kind = "User"})

\* A members.list call resolves: the members' entities, then the group's,
\* are pushed, and the one-second timer is started.
MembersListResolve ==
  /\ pc = "membersList"
  /\ \E members \in {Undefined} \cup
         {Defined(s) : s \in SeqsUpTo(RemoteMembers, MaxMembers - UsersSoFar)} :
       LET done == AddMembers(OrEmpty(members), groupEntity, entities, groupsResponse)
           pushed == Append(done.entities, done.group)
       IN SetRun([CurrentRun EXCEPT
                    !.groupEntity = done.group,
                    !.entities = pushed,
                    !.entityOrigin = @ \o [i \in 1..(Len(pushed) - Len(entities)) |-> origin[gi]],
                    !.pc = "sleep"])
  /\ UNCHANGED providerVars

\* MembersListReject with the failure caught inside the loop: the group is
\* skipped and the loop goes on to the timer.
MembersListRejectCaught ==
  /\ pc = "membersList"
  /\ SetRun([CurrentRun EXCEPT !.pc = "sleep"])
  /\ UNCHANGED providerVars

MembersListReject ==
  /\ pc = "membersList"
  /\ SetRun(Throw(CurrentRun, RemoteError))
  /\ UNCHANGED providerVars

\* The timer fires: the loop goes to the next group.
resume ==
  /\ pc = "sleep"
  /\ SetRun(NextGroup([CurrentRun EXCEPT !.gi = @ + 1]))
  /\ UNCHANGED providerVars

ApplyMutationResolve ==
  /\ pc = "applyMutation"
  /\ SetRun([CurrentRun EXCEPT !.pc = "done"])
  /\ UNCHANGED providerVars

ApplyMutationReject ==
  /\ pc = "applyMutation"
  /\ SetRun(Throw(CurrentRun, SinkError))
  /\ UNCHANGED providerVars

Next ==
  \/ InitializeGoogleApiClientResolve
  \/ InitializeGoogleApiClientReject
  \/ connect
  \/ run
  \/ GroupsListResolve
  \/ GroupsListReject
  \/ MembersListResolve
  \/ MembersListReject
  \/ resume
  \/ ApplyMutationResolve
  \/ ApplyMutationReject

Spec == Init /\ [][Next]_vars

TypeOK ==
  /\ pc \in {"idle", "groupsList", "membersList", "sleep", "applyMutation", "done", "failed"}
  /\ Len(origin) = Len(OrEmpty(ggroups))
  /\ Len(entityOrigin) = Len(entities)


\* ------------------------------------------------- what the claims speak of
IsGroupEntity(e) == e.kind = "Group"
IsUserEntity(e) == e.kind = "User"

\* The group entities among es, in order.
GroupEntities(es) == SelectSeq(es, IsGroupEntity)

Ids(gs) == [i \in 1..Len(gs) |-> gs[i].id]
Uids(es) == [i \in 1..Len(es) |-> es[i].uid]

RECURSIVE Flatten(_)
\* The pages of a sequence of responses, one after the other.
Flatten(results) ==
  IF results = <<>> THEN <<>> ELSE OrEmpty(Head(results)) \o Flatten(Tail(results))

RECURSIVE Keep(_, _)
\* The groups of gs whose address is one of allow, in their order.
Keep(gs, allow) ==
  IF gs = <<>> THEN <<>>
  ELSE IF \E a \in allow : a = Head(gs).email
       THEN <<Head(gs)>> \o Keep(Tail(gs), allow)
       ELSE Keep(Tail(gs), allow)

Range(s) == {s[i] : i \in 1..Len(s)}

IsPrefix(s, t) == Len(s) <= Len(t) /\ \A i \in 1..Len(s) : s[i] = t[i]

\* Every group-listing call of the run has been answered, and the run has
\* gone past the listing.
FetchComplete ==
  /\ listCalls # <<>>
  /\ Len(listResults) = Len(listCalls)
  /\ pc # "groupsList"

\* A remote call of the run was left without an answer: it failed.
RemoteCallFailed ==
  \/ pc # "groupsList" /\ Len(listCalls) > Len(listResults)
  \/ pc # "membersList" /\ Len(memberCalls) > Len(GroupEntities(entities))

\* The run returned normally.
Returned == pc = "done"

\* es is, group by group, the group's user entities and then the group
\* entity: the members of the group entity at position j are the names of
\* the user entities right before it, and nothing else is in es.
RECURSIVE WellGrouped(_)
WellGrouped(es) ==
  IF es = <<>> THEN TRUE
  ELSE LET last == es[Len(es)]
       IN /\ IsGroupEntity(last)
          /\ Len(last.members) < Len(es)
          /\ \A t \in 1..Len(last.members) :
               LET u == es[Len(es) - Len(last.members) + t - 1]
               IN IsUserEntity(u) /\ u.name = last.members[t] /\ u.memberOf = <<last.name>>
          /\ WellGrouped(SubSeq(es, 1, Len(es) - Len(last.members) - 1))

\* The run got through the listing and the whole loop over the groups: its
\* entity sequence is produced.
Produced ==
  /\ FetchComplete
  /\ ~RemoteCallFailed
  /\ pc \notin {"membersList", "sleep"}

\* C1: a run that has produced its entity sequence, with at least one
\* entity in it, has invoked applyMutation exactly once, with type "full"
\* and with the produced entities, each once and in the produced order (for
\* each surviving group its user entities, then the group entity); no run
\* invokes it twice.
C1_OneFullMutation ==
  /\ Len(sinkCalls) <= 1
  /\ (Produced /\ entities # <<>>) =>
       /\ Len(sinkCalls) = 1
       /\ sinkCalls[1].type = "full"
       /\ Len(sinkCalls[1].entities) = Len(entities)
       /\ \A i \in 1..Len(entities) : sinkCalls[1].entities[i].entity = entities[i]
       /\ WellGrouped(entities)
       /\ Uids(GroupEntities(entities)) = Ids(OrEmpty(ggroups))

C1_Witness ==
  /\ Returned
  /\ Len(OrEmpty(ggroups)) = 2
  /\ Len(entities) = 4
  /\ Len(sinkCalls) = 1
  /\ entities[1].kind = "User" /\ entities[2].kind = "User"
  /\ entities[1] # entities[2]

\* C2: when every group-listing call was answered and the fetched, filtered
\* group sequence is empty, the run returns without error, issues no
\* member-listing call and never invokes applyMutation.
C2_EmptyIsNoOp ==
  (FetchComplete /\ OrEmpty(ggroups) = <<>>) =>
    /\ Returned
    /\ error = ""
    /\ memberCalls = <<>>
    /\ sinkCalls = <<>>

C2_Witness ==
  /\ Returned
  /\ config.groups.defined
  /\ listResults = <<Undefined>>
  /\ ~ggroups.defined
  /\ sinkCalls = <<>>

\* C3: with both the allow-list and the query list set (empty or not), a
\* run fails, and no group-listing call, member-listing call or
\* applyMutation call is ever made.
C3_BothSetFails ==
  (config.groups.defined /\ config.query.defined) =>
    /\ pc \in {"idle", "failed"}
    /\ listCalls = <<>>
    /\ memberCalls = <<>>
    /\ sinkCalls = <<>>

C3_Witness ==
  /\ config.groups = Defined(<<>>)
  /\ config.query.defined
  /\ config.query.value # <<>>
  /\ pc = "failed"
  /\ error = BothError

\* C4: with a query list that is present and empty, a run fails, and no
\* remote call or applyMutation call is ever made.
C4_EmptyQueryFails ==
  (config.query.defined /\ Len(config.query.value) = 0) =>
    /\ pc \in {"idle", "failed"}
    /\ listCalls = <<>>
    /\ memberCalls = <<>>
    /\ sinkCalls = <<>>

C4_Witness ==
  /\ config.query = Defined(<<>>)
  /\ ~config.groups.defined
  /\ pc = "failed"
  /\ error = NoQueryError

\* C5: when a remote call of the run has failed (a group-listing call, or
\* the member-listing call of any group), the run has thrown that error
\* and applyMutation was not invoked, whatever was built before.
C5_FailureSubmitsNothing ==
  RemoteCallFailed =>
    /\ pc = "failed"
    /\ error = RemoteError
    /\ sinkCalls = <<>>

C5_Witness ==
  /\ pc = "failed"
  /\ error = RemoteError
  /\ Len(memberCalls) = 2
  /\ Len(entities) >= 2
  /\ sinkCalls = <<>>


\* C6: a run invoked while the connection is not set or the client is not
\* yet created throws on the spot, with no remote call and no applyMutation
\* call, and it does not wait; so whenever a call of the run exists, or the
\* run is awaiting one, the client and the connection are set.
C6_NoCallBeforeReady ==
  /\ []((pc \notin Resting \/ listCalls # <<>> \/ memberCalls # <<>> \/ sinkCalls # <<>>)
          => (connection /\ directoryApiClient))
  /\ [][(run /\ ~(connection /\ directoryApiClient)) =>
          /\ pc' = "failed"
          /\ error' = (IF ~connection THEN ConnectionError ELSE ClientError)
          /\ listCalls' = <<>>
          /\ memberCalls' = <<>>
          /\ sinkCalls' = <<>>]_vars

C6_Witness ==
  /\ connection
  /\ ~directoryApiClient
  /\ initPc = "pending"
  /\ config.customerId.defined
  /\ pc = "failed"
  /\ error = ClientError
  /\ listCalls = <<>>

C9_EmptyAllowListSyncsAll ==
  (config.groups = Defined(<<>>) /\ ~config.query.defined /\ FetchComplete /\ Returned) =>
    \A g \in Range(Flatten(listResults)) :
      \E c \in Range(sinkCalls) : \E i \in 1..Len(c.entities) :
        c.entities[i].entity.kind = "Group" /\ c.entities[i].entity.uid = g.id

\* C10: every entity submitted to the sink carries location and origin
\* location annotations made from the resolved request URL of the
\* group-listing call that returned the entity's group, and its locationKey
\* is its location annotation.
C10_AnnotationsNameProducingCall ==
  \A c \in Range(sinkCalls) : \A i \in 1..Len(c.entities) :
    /\ c.entities[i].entity.annotations.location = <<"ggroups:">> \o entityOrigin[i]
    /\ c.entities[i].entity.annotations.originLocation = <<"ggroups:">> \o entityOrigin[i]
    /\ c.entities[i].locationKey = c.entities[i].entity.annotations.location

====
